---- MODULE Spec2Model ----
(***************************************************************************)
(* Model of the scan-progress dashboard of src/frontend/app.js (the third  *)
(* script of the file, lines 563-1049): the per-category progress state    *)
(* kept in the Maps startTimes, endTimes, categoryTotals and               *)
(* categoryCompleted and in the status elements of each card, the counters *)
(* failureCount and activeCategoryIndex, and the streaming session driven  *)
(* by startStreaming and handleStream.                                     *)
(*                                                                         *)
(* One action is one run of an event handler or of the code between two    *)
(* awaits.  Date.now() is a logical clock that advances by one every time  *)
(* a handler runs.                                                         *)
(***************************************************************************)
EXTENDS Integers, Sequences, FiniteSets, TLC

VARIABLES
    categoryOrder,        \* const categoryOrder: the ordered category ids
    expectedCategories,   \* const expectedCategories: id -> number of commands
    cards,                \* Map cards / summaryCards: category -> status elements
    startTimes,           \* Map startTimes
    endTimes,             \* Map endTimes
    categoryTotals,       \* Map categoryTotals
    categoryCompleted,    \* Map categoryCompleted
    failureCount,         \* let failureCount
    activeCategoryIndex,  \* let activeCategoryIndex (0-based, as in the code)
    isStreaming,          \* let isStreaming
    abortController,      \* let abortController: "null" | "live" | "aborted"
    activeReader,         \* let activeReader: "null" | "reader"
    durationTimer,        \* let durationTimer: TRUE while the interval is set
    status,               \* statusText / header tone, as left by setStatus
    pc,                   \* where startStreaming/handleStream is suspended
    buffer,               \* handleStream's local buffer
    now,                  \* Date.now()
    applied,              \* history: payloads updateCard ran for, this session
    warnings,             \* history: number of console.warn parse diagnostics, this session
    finalizeCalls,        \* history: runs of finalizeStatus, this session
    lastEnd,              \* history: how the session's transport ended
    sessions,             \* history: number of sessions started
    received,             \* history: the text read from the stream, this session
    parsed,               \* history: the texts handed to JSON.parse, this session
    ignored,              \* history: number of start clicks that returned at once
    linesFed              \* history: number of chunks delivered so far

vars == <<categoryOrder, expectedCategories, cards, startTimes, endTimes,
          categoryTotals, categoryCompleted, failureCount, activeCategoryIndex,
          isStreaming, abortController, activeReader, durationTimer, status,
          pc, buffer, now, applied, warnings, finalizeCalls, lastEnd,
          sessions, received, parsed, ignored, linesFed>>

(***************************************************************************)
(* Bounds of the model.                                                    *)
(***************************************************************************)
MaxLines == 3
MaxSessions == 2

(***************************************************************************)
(* Maps.                                                                   *)
(***************************************************************************)
EmptyMap == <<>>
Has(m, k) == k \in DOMAIN m
Get(m, k, d) == IF k \in DOMAIN m THEN m[k] ELSE d
Put(m, k, v) == [x \in DOMAIN m \cup {k} |-> IF x = k THEN v ELSE m[x]]
Min(a, b) == IF a < b THEN a ELSE b

(***************************************************************************)
(* Catalogs the model is run with.  The code has one catalog of fourteen   *)
(* categories (expectedCategories, in the order of categoryOrder) and      *)
(* reads it only through indexOf, length and the number of commands of a   *)
(* category; the model runs the same code on short catalogs: the two of    *)
(* the specification's scenarios, and developer_data, homebrew as they     *)
(* follow each other in the code's catalog, with their four and three      *)
(* commands.                                                               *)
(***************************************************************************)
Catalogs ==
    { << [id |-> "A", count |-> 1], [id |-> "B", count |-> 1], [id |-> "C", count |-> 2] >>,
      << [id |-> "snapshots", count |-> 2], [id |-> "caches", count |-> 1] >>,
      << [id |-> "developer_data", count |-> 4], [id |-> "homebrew", count |-> 3] >> }

OrderOf(cat) == [i \in 1..Len(cat) |-> cat[i].id]
CountsOf(cat) == [c \in {cat[i].id : i \in 1..Len(cat)} |-> (CHOOSE e \in {cat[i] : i \in 1..Len(cat)} : e.id = c).count]

CatalogIds == {categoryOrder[i] : i \in 1..Len(categoryOrder)}

\* categoryOrder.indexOf(category): 0-based position, -1 when absent
IndexOf(category) ==
    IF \E i \in 1..Len(categoryOrder) : categoryOrder[i] = category
    THEN (CHOOSE i \in 1..Len(categoryOrder) : categoryOrder[i] = category) - 1
    ELSE -1

\* categoryOrder[i] for a 0-based i inside the array
At(i) == categoryOrder[i + 1]

(***************************************************************************)
(* The stream's text, as a sequence of symbols: a newline, a blank, the    *)
(* text of a JSON object up to its closing brace (carrying the object),    *)
(* the closing brace, text that is no JSON at all, and the text of a JSON  *)
(* value that is no object (carrying the value).                           *)
(***************************************************************************)
NoObj == <<>>
NL == [k |-> "nl", v |-> NoObj]
SP == [k |-> "sp", v |-> NoObj]
RB == [k |-> "rbrace", v |-> NoObj]
JUNK == [k |-> "junk", v |-> NoObj]
LB(p) == [k |-> "lbrace", v |-> p]
LIT(x) == [k |-> "literal", v |-> x]

\* the values of JSON that are no objects: null, a number, a string, a boolean
\* and an array.  Such a value has none of the properties updateCard reads.
JNull == [json |-> "null"]
JNumber == [json |-> "number"]
JString == [json |-> "string"]
JBoolean == [json |-> "boolean"]
JArray == [json |-> "array"]
Literals == { JNull, JNumber, JString, JBoolean, JArray }

\* the record objects of the streams: a successful and a failing record of every
\* catalog category, records without a category, and records of a category
\* outside the catalog; between them every way a record states its outcome
Payloads ==
    { [category |-> c, returncode |-> rc] : c \in CatalogIds, rc \in {0, 1} }
    \cup { [status |-> "ok"], <<>> }
    \cup { [category |-> "misc", status |-> "ok", returncode |-> 1],
           [category |-> "misc", status |-> "error"] }

RecordLine(p) == << LB(p), RB >>
MainLines == { RecordLine(p) : p \in Payloads } \cup { <<JUNK>>, <<SP>> }
\* a chunk that ends without a newline
TailLines == { RecordLine([category |-> categoryOrder[1], returncode |-> 0]), <<JUNK>> }
MainChunks == { l \o <<NL>> : l \in MainLines } \cup TailLines

\* String.prototype.trim
RECURSIVE TrimLeft(_)
TrimLeft(s) == IF s # <<>> /\ Head(s) = SP THEN TrimLeft(Tail(s)) ELSE s
RECURSIVE TrimRight(_)
TrimRight(s) == IF s # <<>> /\ s[Len(s)] = SP THEN TrimRight(SubSeq(s, 1, Len(s) - 1)) ELSE s
Trim(s) == TrimRight(TrimLeft(s))

\* String.prototype.split("\n"): always at least one piece
RECURSIVE Split(_)
Split(s) ==
    IF \A i \in 1..Len(s) : s[i] # NL THEN << s >>
    ELSE LET i == CHOOSE j \in 1..Len(s) : s[j] = NL /\ \A h \in 1..(j - 1) : s[h] # NL
         IN  << SubSeq(s, 1, i - 1) >> \o Split(SubSeq(s, i + 1, Len(s)))

\* JSON.parse: white space between tokens is insignificant; an object is its
\* opening text and its closing brace, a value that is no object is its own
\* text; anything else throws SyntaxError
JSONParse(s) ==
    LET t == SelectSeq(s, LAMBDA x : x # SP)
    IN  IF Len(t) = 2 /\ t[1].k = "lbrace" /\ t[2] = RB
        THEN [ok |-> TRUE, value |-> t[1].v]
        ELSE IF Len(t) = 1 /\ t[1].k = "literal"
             THEN [ok |-> TRUE, value |-> t[1].v]
             ELSE [ok |-> FALSE, value |-> NoObj]

(***************************************************************************)
(* The tracker.  The operators below take and return the tracker's state   *)
(* as a record t, so that a handler that calls several of them in a row is *)
(* their composition.  One entry of t.cards holds the status element and   *)
(* progress bar of the category's card (ensureCard) and the badge and      *)
(* counts of its summary row (ensureSummary): the code creates the two     *)
(* together.  t.applied, t.warnings, t.finalizeCalls and t.parsed are       *)
(* history, not program state.                                             *)
(***************************************************************************)
Tracker ==
    [ cards |-> cards, startTimes |-> startTimes, endTimes |-> endTimes,
      categoryTotals |-> categoryTotals, categoryCompleted |-> categoryCompleted,
      failureCount |-> failureCount, activeCategoryIndex |-> activeCategoryIndex,
      status |-> status, applied |-> applied, warnings |-> warnings,
      finalizeCalls |-> finalizeCalls, parsed |-> parsed ]

SetTracker(t) ==
    /\ cards' = t.cards
    /\ startTimes' = t.startTimes
    /\ endTimes' = t.endTimes
    /\ categoryTotals' = t.categoryTotals
    /\ categoryCompleted' = t.categoryCompleted
    /\ failureCount' = t.failureCount
    /\ activeCategoryIndex' = t.activeCategoryIndex
    /\ status' = t.status
    /\ applied' = t.applied
    /\ warnings' = t.warnings
    /\ finalizeCalls' = t.finalizeCalls
    /\ parsed' = t.parsed

\* expectedCategories[category]?.length || 0
CommandsOf(category) == Get(expectedCategories, category, 0)

\* the elements ensureCard and ensureSummary create
NewCard(category) ==
    [ statusText |-> "Not started", statusClass |-> {"status", "pending"},
      badgeText |-> "Not started", badgeClass |-> {"badge", "pending"},
      width |-> 0, scanned |-> 0, counts |-> << 0, CommandsOf(category) >> ]

ensureCard(t, category) ==
    IF Has(t.cards, category) THEN t
    ELSE [t EXCEPT !.cards = Put(@, category, NewCard(category))]

setStatus(t, text, tone, n) ==
    [t EXCEPT !.status = [text |-> text, tone |-> tone, errors |-> n]]

\* activateCategory without its test of startTimes: every call stamps and reopens
activateCategoryUnguarded(t, category, time) ==
    LET t1 == ensureCard(t, category)
        e == t1.cards[category]
    IN  [t1 EXCEPT
           !.startTimes = Put(@, category, time),
           !.cards = Put(@, category,
               [e EXCEPT
                  !.statusClass = (@ \ {"pending", "done", "error"}) \cup {"working"},
                  !.statusText = "Running",
                  !.badgeClass = (@ \ {"pending", "done", "error"}) \cup {"working"},
                  !.badgeText = "Running"])]

activateCategory(t, category, time) ==
    IF Get(t.startTimes, category, 0) # 0 THEN t
    ELSE LET t1 == ensureCard(t, category)
             e == t1.cards[category]
         IN  [t1 EXCEPT
                !.startTimes = Put(@, category, time),
                !.cards = Put(@, category,
                    [e EXCEPT
                       !.statusClass = (@ \ {"pending", "done", "error"}) \cup {"working"},
                       !.statusText = "Running",
                       !.badgeClass = (@ \ {"pending", "done", "error"}) \cup {"working"},
                       !.badgeText = "Running"])]

\* finishCategory without its isError argument: every finished category shows Done
finishCategoryAlwaysDone(t, category, isError, time) ==
    LET t1 == IF Has(t.endTimes, category) THEN t
              ELSE [t EXCEPT !.endTimes = Put(@, category, time)]
    IN  IF ~Has(t1.cards, category) THEN t1
        ELSE [t1 EXCEPT
                !.cards = Put(@, category,
                    [t1.cards[category] EXCEPT
                       !.statusClass = (@ \ {"pending", "working"}) \cup {"done"},
                       !.statusText = "Done",
                       !.badgeClass = (@ \ {"pending", "working"}) \cup {"done"},
                       !.badgeText = "Done"])]

\* finishCategory that also fills the count of the category it finishes
finishCategoryFillingCount(t, category, isError, time) ==
    LET t1 == IF Has(t.endTimes, category) THEN t
              ELSE [t EXCEPT !.endTimes = Put(@, category, time)]
        word == IF isError THEN "Error" ELSE "Done"
        class == IF isError THEN "error" ELSE "done"
        t2 == [t1 EXCEPT !.categoryCompleted =
                           Put(@, category, Get(t1.categoryTotals, category, 1))]
    IN  IF ~Has(t2.cards, category) THEN t2
        ELSE [t2 EXCEPT
                !.cards = Put(@, category,
                    [t2.cards[category] EXCEPT
                       !.statusClass = (@ \ {"pending", "working"}) \cup {class},
                       !.statusText = word,
                       !.badgeClass = (@ \ {"pending", "working"}) \cup {class},
                       !.badgeText = word])]

finishCategory(t, category, isError, time) ==
    LET t1 == IF Has(t.endTimes, category) THEN t
              ELSE [t EXCEPT !.endTimes = Put(@, category, time)]
        word == IF isError THEN "Error" ELSE "Done"
        class == IF isError THEN "error" ELSE "done"
    IN  IF ~Has(t1.cards, category) THEN t1
        ELSE [t1 EXCEPT
                !.cards = Put(@, category,
                    [t1.cards[category] EXCEPT
                       !.statusClass = (@ \ {"pending", "working"}) \cup {class},
                       !.statusText = word,
                       !.badgeClass = (@ \ {"pending", "working"}) \cup {class},
                       !.badgeText = word])]

\* the fast-forward loop started one position late: the old active category is left out
RECURSIVE finishRangeAfterActive(_, _, _, _)
finishRangeAfterActive(t, from, to, time) ==
    IF from + 1 >= to THEN t
    ELSE finishRangeAfterActive(finishCategory(t, At(from + 1), FALSE, time), from + 1, to, time)

\* the loop of the fast-forward: finishCategory(categoryOrder[i], false) for i = from .. to-1
RECURSIVE finishRange(_, _, _, _)
finishRange(t, from, to, time) ==
    IF from >= to THEN t
    ELSE finishRange(finishCategory(t, At(from), FALSE, time), from + 1, to, time)

\* result.category || "generic"
CategoryOf(result) ==
    IF "category" \in DOMAIN result THEN result.category ELSE "generic"

\* the success test with && in place of ||
IsErrorResultBoth(result) ==
    ~ ( ("status" \in DOMAIN result /\ result.status = "ok")
        /\ ("returncode" \in DOMAIN result /\ result.returncode = 0) )

\* !(result.status === "ok" || result.returncode === 0)
IsErrorResult(result) ==
    ~ ( ("status" \in DOMAIN result /\ result.status = "ok")
        \/ ("returncode" \in DOMAIN result /\ result.returncode = 0) )

\* the width without Math.min
ProgressWidthUnclamped(doneNext, total) == (doneNext * 100) \div total

\* progressFill.style.width: Math.min(100, (doneNext / total) * 100), in whole percent
ProgressWidth(doneNext, total) == Min(100, (doneNext * 100) \div total)

\* a count that stops at total
NextCompletedCapped(donePrev, total) == Min(donePrev + 1, total)

\* const doneNext = donePrev + 1
NextCompleted(donePrev, total) == donePrev + 1

\* the fast-forward of updateCard (lines 839-845): the loop, the new active
\* index, the activation of the record's category
fastForward(t, resultIndex, category, time) ==
    activateCategory(
       [finishRange(t, t.activeCategoryIndex, resultIndex, time)
          EXCEPT !.activeCategoryIndex = resultIndex],
       category, time)

updateCard(t, result, time) ==
    LET category == CategoryOf(result)
        t1 == IF Has(t.categoryTotals, category) THEN t
              ELSE [t EXCEPT !.categoryTotals = Put(@, category, 1),
                             !.categoryCompleted = Put(@, category, 0)]
        resultIndex == IndexOf(category)
        t2 == IF resultIndex > -1 /\ resultIndex > t1.activeCategoryIndex
              THEN fastForward(t1, resultIndex, category, time)
              ELSE IF resultIndex = -1 /\ Get(t1.startTimes, category, 0) = 0
                   THEN activateCategory(t1, category, time)
                   ELSE t1
        t3 == ensureCard(t2, category)
        total == LET n == Get(t3.categoryTotals, category, 0) IN IF n = 0 THEN 1 ELSE n
        donePrev == Get(t3.categoryCompleted, category, 0)
        doneNext == NextCompleted(donePrev, total)
        isError == IsErrorResult(result)
        t4 == [t3 EXCEPT
                 !.failureCount = IF isError THEN @ + 1 ELSE @,
                 !.categoryCompleted = Put(@, category, doneNext),
                 !.cards = Put(@, category,
                     [t3.cards[category] EXCEPT
                        !.width = ProgressWidth(doneNext, total),
                        !.counts = << doneNext, total >>,
                        !.scanned = doneNext])]
        t5 == IF doneNext >= total
              THEN LET f == finishCategory(t4, category, isError, time)
                       nextIndex == IndexOf(category) + 1
                   IN  IF nextIndex < Len(categoryOrder)
                       THEN activateCategory([f EXCEPT !.activeCategoryIndex = nextIndex],
                                             At(nextIndex), time)
                       ELSE f
              ELSE IF isError
                   THEN [t4 EXCEPT
                           !.cards = Put(@, category,
                               [t4.cards[category] EXCEPT
                                  !.statusClass = @ \cup {"error"},
                                  !.statusText = "Error",
                                  !.badgeClass = @ \cup {"error"}])]
                   ELSE [t4 EXCEPT
                           !.cards = Put(@, category,
                               [t4.cards[category] EXCEPT
                                  !.statusClass = @ \cup {"working"},
                                  !.statusText = "Running"])]
    IN  [t5 EXCEPT !.applied = Append(@, result)]

\* finalizeStatus without its look at failureCount: the end is always a success
finalizeStatusIgnoringFailures(t, time) ==
    LET t1 == setStatus(t, "All categories finished", "success", 0)
        currentCat == At(t1.activeCategoryIndex)
        t2 == IF ~Has(t1.endTimes, currentCat)
              THEN finishCategory(t1, currentCat, FALSE, time)
              ELSE t1
    IN  [t2 EXCEPT !.finalizeCalls = @ + 1]

finalizeStatus(t, time) ==
    LET t1 == IF t.failureCount > 0
              THEN setStatus(t, "Completed with N error(s)", "error", t.failureCount)
              ELSE setStatus(t, "All categories finished", "success", 0)
        currentCat == At(t1.activeCategoryIndex)
        t2 == IF ~Has(t1.endTimes, currentCat)
              THEN finishCategory(t1, currentCat, FALSE, time)
              ELSE t1
    IN  [t2 EXCEPT !.finalizeCalls = @ + 1]

\* seedCards: totals, counts and cards of every catalog category
seedCards(t) ==
    [t EXCEPT
       !.categoryTotals = [c \in DOMAIN t.categoryTotals \cup CatalogIds |->
                             IF c \in CatalogIds THEN expectedCategories[c] ELSE t.categoryTotals[c]],
       !.categoryCompleted = [c \in DOMAIN t.categoryCompleted \cup CatalogIds |->
                                IF c \in CatalogIds THEN 0 ELSE t.categoryCompleted[c]],
       !.cards = [c \in CatalogIds |-> NewCard(c)],
       !.startTimes = EmptyMap,
       !.endTimes = EmptyMap]

\* resetStream without categoryTotals.clear() and categoryCompleted.clear()
resetStreamKeepingCounts(t) ==
    seedCards([t EXCEPT !.cards = EmptyMap,
                        !.failureCount = 0,
                        !.activeCategoryIndex = 0,
                        !.startTimes = EmptyMap,
                        !.endTimes = EmptyMap])

\* resetStream, without the fields of the session (abortController, activeReader,
\* isStreaming, durationTimer), which StartStreaming sets itself
resetStream(t) ==
    seedCards([t EXCEPT !.cards = EmptyMap,
                        !.failureCount = 0,
                        !.activeCategoryIndex = 0,
                        !.startTimes = EmptyMap,
                        !.endTimes = EmptyMap,
                        !.categoryTotals = EmptyMap,
                        !.categoryCompleted = EmptyMap])

(***************************************************************************)
(* handleStream: what it does with one line, with the lines of one chunk,  *)
(* and with the text left in the buffer when the stream is done.           *)
(***************************************************************************)
\* result.category of null throws TypeError at line 831, before updateCard has
\* changed anything
Throws(result) == result = JNull

\* lines 912-916: updateCard in its try; what it throws is logged with
\* console.error and the line is dropped
TryUpdateCard(t, result, time) ==
    IF Throws(result) THEN t ELSE updateCard(t, result, time)

\* a line that does not parse counted as a failure of the scan
ProcessLineCountingParseFailure(t, line, time) ==
    LET trimmed == Trim(line)
    IN  IF trimmed = <<>> THEN t
        ELSE LET r == JSONParse(trimmed)
                 t1 == [t EXCEPT !.parsed = Append(@, trimmed)]
             IN  IF r.ok THEN TryUpdateCard(t1, r.value, time)
                 ELSE [t1 EXCEPT !.warnings = @ + 1, !.failureCount = @ + 1]

\* lines 908-919: trim, skip an empty line, JSON.parse, updateCard; a line that
\* does not parse is reported with console.warn and dropped
ProcessLine(t, line, time) ==
    LET trimmed == Trim(line)
    IN  IF trimmed = <<>> THEN t
        ELSE LET r == JSONParse(trimmed)
                 t1 == [t EXCEPT !.parsed = Append(@, trimmed)]
             IN  IF r.ok THEN TryUpdateCard(t1, r.value, time)
                 ELSE [t1 EXCEPT !.warnings = @ + 1]

RECURSIVE ProcessLines(_, _, _)
ProcessLines(t, lines, time) ==
    IF lines = <<>> THEN t
    ELSE ProcessLines(ProcessLine(t, Head(lines), time), Tail(lines), time)

\* an end of stream that throws the unfinished line away
ProcessTrailingDropped(t, buf, time) == t

\* lines 922-933: the trailing text is parsed untrimmed when it is not blank
ProcessTrailing(t, buf, time) ==
    IF Trim(buf) = <<>> THEN t
    ELSE LET r == JSONParse(buf)
             t1 == [t EXCEPT !.parsed = Append(@, buf)]
         IN  IF r.ok THEN TryUpdateCard(t1, r.value, time)
             ELSE [t1 EXCEPT !.warnings = @ + 1]

(***************************************************************************)
(* Initial state: the script has run to its end (seedCards at line 1047).  *)
(***************************************************************************)
Init ==
    /\ \E cat \in Catalogs :
         /\ categoryOrder = OrderOf(cat)
         /\ expectedCategories = CountsOf(cat)
         /\ cards = [c \in DOMAIN CountsOf(cat) |->
                       [ statusText |-> "Not started", statusClass |-> {"status", "pending"},
                         badgeText |-> "Not started", badgeClass |-> {"badge", "pending"},
                         width |-> 0, scanned |-> 0, counts |-> << 0, CountsOf(cat)[c] >> ]]
         /\ categoryTotals = CountsOf(cat)
         /\ categoryCompleted = [c \in DOMAIN CountsOf(cat) |-> 0]
    /\ startTimes = EmptyMap
    /\ endTimes = EmptyMap
    /\ failureCount = 0
    /\ activeCategoryIndex = 0
    /\ isStreaming = FALSE
    /\ abortController = "null"
    /\ activeReader = "null"
    /\ durationTimer = FALSE
    /\ status = [text |-> "", tone |-> "default", errors |-> 0]
    /\ pc = "idle"
    /\ buffer = <<>>
    /\ now = 1
    /\ applied = <<>>
    /\ warnings = 0
    /\ finalizeCalls = 0
    /\ lastEnd = "none"
    /\ sessions = 0
    /\ received = <<>>
    /\ parsed = <<>>
    /\ ignored = 0
    /\ linesFed = 0

(***************************************************************************)
(* Actions.                                                                *)
(***************************************************************************)
\* a click on the start button while no session runs: startStreaming up to the
\* await of fetch (lines 944-959)
StartStreaming ==
    /\ ~isStreaming
    /\ sessions < MaxSessions
    /\ LET t0 == [Tracker EXCEPT !.applied = <<>>, !.warnings = 0, !.finalizeCalls = 0,
                                 !.parsed = <<>>]
           t1 == resetStream(t0)
           t2 == IF Len(categoryOrder) > 0
                 THEN activateCategory([t1 EXCEPT !.activeCategoryIndex = 0], At(0), now)
                 ELSE t1
       IN  SetTracker(setStatus(t2, "Connecting...", "default", 0))
    /\ abortController' = "live"
    /\ activeReader' = "null"
    /\ durationTimer' = TRUE
    /\ isStreaming' = TRUE
    /\ pc' = "connecting"
    /\ buffer' = <<>>
    /\ lastEnd' = "none"
    /\ sessions' = sessions + 1
    /\ received' = <<>>
    /\ now' = now + 1
    /\ UNCHANGED <<categoryOrder, expectedCategories, ignored, linesFed>>

\* a start that does not look at isStreaming: it resets the session that runs
StartOverRunningSession ==
    /\ isStreaming
    /\ ignored < MaxSessions
    /\ LET t0 == [Tracker EXCEPT !.applied = <<>>, !.warnings = 0, !.finalizeCalls = 0,
                                 !.parsed = <<>>]
           t1 == activateCategory([resetStream(t0) EXCEPT !.activeCategoryIndex = 0], At(0), now)
       IN  SetTracker(setStatus(t1, "Connecting...", "default", 0))
    /\ abortController' = "live"
    /\ activeReader' = "null"
    /\ pc' = "connecting"
    /\ buffer' = <<>>
    /\ received' = <<>>
    /\ ignored' = ignored + 1
    /\ now' = now + 1
    /\ UNCHANGED <<categoryOrder, expectedCategories, isStreaming, durationTimer,
                   lastEnd, sessions, linesFed>>

\* a click on the start button while a session runs: startStreaming returns at
\* line 944
StartWhileStreaming ==
    /\ isStreaming
    /\ ignored < MaxSessions
    /\ ignored' = ignored + 1
    /\ now' = now + 1
    /\ UNCHANGED <<categoryOrder, expectedCategories, cards, startTimes, endTimes,
                   categoryTotals, categoryCompleted, failureCount, activeCategoryIndex,
                   isStreaming, abortController, activeReader, durationTimer, status,
                   pc, buffer, applied, warnings, finalizeCalls, lastEnd, sessions,
                   received, parsed, linesFed>>

\* a start that does not wait for handleStream: its finally block clears the
\* streaming flag while the read loop goes on
FetchResponseNotAwaited ==
    /\ pc = "connecting"
    /\ SetTracker(setStatus(Tracker, "Streaming data...", "default", 0))
    /\ activeReader' = "reader"
    /\ buffer' = <<>>
    /\ pc' = "reading"
    /\ isStreaming' = FALSE
    /\ now' = now + 1
    /\ UNCHANGED <<categoryOrder, expectedCategories, ignored, abortController,
                   durationTimer, lastEnd, sessions, received, linesFed>>

\* fetch resolves with a body: lines 960-962 and handleStream up to its first read
FetchResponse ==
    /\ pc = "connecting"
    /\ SetTracker(setStatus(Tracker, "Streaming data...", "default", 0))
    /\ activeReader' = "reader"
    /\ buffer' = <<>>
    /\ pc' = "reading"
    /\ now' = now + 1
    /\ UNCHANGED <<categoryOrder, expectedCategories, ignored, isStreaming, abortController,
                   durationTimer, lastEnd, sessions, received, linesFed>>

\* fetch rejects, or resolves without a body: lines 963-971
FetchFail ==
    /\ pc = "connecting"
    /\ SetTracker(setStatus(Tracker, "Failed to connect", "error", 0))
    /\ isStreaming' = FALSE
    /\ durationTimer' = FALSE
    /\ pc' = "idle"
    /\ lastEnd' = "connectFailed"
    /\ now' = now + 1
    /\ UNCHANGED <<categoryOrder, expectedCategories, ignored, abortController, activeReader,
                   buffer, sessions, received, linesFed>>

\* a reader that forgets the unfinished line of the chunk before
ReadChunkNoCarry(chunk) ==
    /\ pc = "reading"
    /\ linesFed + (sessions - 1) < MaxLines
    /\ LET pieces == Split(chunk)
           lines == SubSeq(pieces, 1, Len(pieces) - 1)
       IN  /\ buffer' = pieces[Len(pieces)]
           /\ SetTracker(ProcessLines(Tracker, lines, now))
    /\ received' = received \o chunk
    /\ linesFed' = linesFed + 1
    /\ now' = now + 1
    /\ UNCHANGED <<categoryOrder, expectedCategories, ignored, isStreaming, abortController,
                   activeReader, durationTimer, pc, lastEnd, sessions>>

\* activeReader.read() resolves with a chunk: lines 902-921.  The model reads
\* MaxLines chunks in all, one fewer for every session after the first.
ReadChunk(chunk) ==
    /\ pc = "reading"
    /\ linesFed + (sessions - 1) < MaxLines
    /\ LET pieces == Split(buffer \o chunk)
           lines == SubSeq(pieces, 1, Len(pieces) - 1)
       IN  /\ buffer' = pieces[Len(pieces)]
           /\ SetTracker(ProcessLines(Tracker, lines, now))
    /\ received' = received \o chunk
    /\ linesFed' = linesFed + 1
    /\ now' = now + 1
    /\ UNCHANGED <<categoryOrder, expectedCategories, ignored, isStreaming, abortController,
                   activeReader, durationTimer, pc, lastEnd, sessions>>

\* activeReader.read() resolves with done: lines 903, 922-934, 938-939, then
\* startStreaming's finally (lines 967-971)
ReadDone ==
    /\ pc = "reading"
    /\ LET t1 == ProcessTrailing(Tracker, buffer, now)
           t2 == finalizeStatus(t1, now)
       IN  SetTracker(finalizeStatus(t2, now))
    /\ buffer' = <<>>
    /\ isStreaming' = FALSE
    /\ durationTimer' = FALSE
    /\ pc' = "idle"
    /\ lastEnd' = "graceful"
    /\ now' = now + 1
    /\ UNCHANGED <<categoryOrder, expectedCategories, ignored, abortController, activeReader,
                   sessions, received, linesFed>>

\* a read error after which the handlers return without clearing the flag
ReadErrorReturning ==
    /\ pc = "reading"
    /\ SetTracker(finalizeStatus(Tracker, now))
    /\ buffer' = <<>>
    /\ pc' = "idle"
    /\ lastEnd' = "readError"
    /\ now' = now + 1
    /\ UNCHANGED <<categoryOrder, expectedCategories, ignored, abortController, activeReader,
                   isStreaming, durationTimer, sessions, received, linesFed>>

\* activeReader.read() rejects with an error that is no AbortError: lines 935-940,
\* then startStreaming's finally
ReadError ==
    /\ pc = "reading"
    /\ SetTracker(finalizeStatus(Tracker, now))
    /\ buffer' = <<>>
    /\ isStreaming' = FALSE
    /\ durationTimer' = FALSE
    /\ pc' = "idle"
    /\ lastEnd' = "readError"
    /\ now' = now + 1
    /\ UNCHANGED <<categoryOrder, expectedCategories, ignored, abortController, activeReader,
                   sessions, received, linesFed>>

Next ==
    \/ StartStreaming
    \/ FetchResponse
    \/ FetchFail
    \/ \E chunk \in MainChunks : ReadChunk(chunk)
    \/ ReadDone
    \/ ReadError

Spec == Init /\ [][Next]_vars

(***************************************************************************)
(* The same program reading a stream that the transport cuts anywhere: a   *)
(* chunk is any one or two symbols of the text, so that a chunk ends in    *)
(* the middle of a line, in the middle of an object, or holds the end of   *)
(* one line and the start of the next.  The catalog is [A(1), B(1), C(2)], *)
(* and the start button is clicked once.                                   *)
(***************************************************************************)
ChunkSymbols == { NL, SP, RB, LB([category |-> "C", returncode |-> 0]) }
AnyChunks ==
    { << a >> : a \in ChunkSymbols } \cup { << a, b >> : a \in ChunkSymbols, b \in ChunkSymbols }

InitChunks == Init /\ categoryOrder = << "A", "B", "C" >>

\* the first click on the start button
FirstStart == sessions = 0 /\ StartStreaming

NextChunks ==
    \/ FirstStart
    \/ FetchResponse
    \/ FetchFail
    \/ \E chunk \in AnyChunks : ReadChunk(chunk)
    \/ ReadDone
    \/ ReadError

SpecChunks == InitChunks /\ [][NextChunks]_vars

(***************************************************************************)
(* The same program with a user who also clicks the start button while a   *)
(* session runs.  The streams are made of two lines: a successful record   *)
(* of the first category and a failing record of the last.                 *)
(***************************************************************************)
ClickChunks ==
    { RecordLine([category |-> categoryOrder[1], returncode |-> 0]) \o << NL >>,
      RecordLine([category |-> categoryOrder[Len(categoryOrder)], returncode |-> 1]) \o << NL >> }

NextClicks ==
    \/ StartStreaming
    \/ StartWhileStreaming
    \/ FetchResponse
    \/ FetchFail
    \/ \E chunk \in ClickChunks : ReadChunk(chunk)
    \/ ReadDone
    \/ ReadError

SpecClicks == Init /\ [][NextClicks]_vars

(***************************************************************************)
(* The same program and user with a transport that settles: a pending      *)
(* fetch is eventually resolved or rejected, and a stream that is being    *)
(* read eventually ends or fails.  The continuation of an await runs once  *)
(* its promise has settled, so the handlers FetchResponse or FetchFail,    *)
(* and ReadDone or ReadError, are taken when they stay enabled.            *)
(***************************************************************************)
\* the end of a stream that is read, in one of its two ways (both leave the
\* read loop, pc' = "idle")
StreamSettles == pc' = "idle" /\ (ReadError \/ ReadDone)

TransportSettles ==
    /\ WF_vars(FetchResponse \/ FetchFail)
    /\ WF_vars(StreamSettles)

SpecSettles == SpecClicks /\ TransportSettles

(***************************************************************************)
(* The same program reading streams with lines that are JSON but no        *)
(* object: null, a number, a string, a boolean, an array, next to the      *)
(* line of a successful record of the first category.                      *)
(***************************************************************************)
LiteralChunks ==
    { << LIT(x), NL >> : x \in Literals }
    \cup { RecordLine([category |-> categoryOrder[1], returncode |-> 0]) \o << NL >> }

NextLiterals ==
    \/ StartStreaming
    \/ FetchResponse
    \/ FetchFail
    \/ \E chunk \in LiteralChunks : ReadChunk(chunk)
    \/ ReadDone
    \/ ReadError

SpecLiterals == Init /\ [][NextLiterals]_vars

(***************************************************************************)
(* Vocabulary of the properties.                                           *)
(***************************************************************************)
\* the phase a category shows: the text of its card's status element
Phase(c) == cards[c].statusText

\* a record is successful iff status == "ok" or returncode == 0
RecordSucceeds(r) ==
    \/ ("status" \in DOMAIN r /\ r.status = "ok")
    \/ ("returncode" \in DOMAIN r /\ r.returncode = 0)

\* the records applied for category c in this session, in order
RecordsOf(c) == SelectSeq(applied, LAMBDA r : CategoryOf(r) = c)

NumFailures(recs) == Cardinality({i \in 1..Len(recs) : ~RecordSucceeds(recs[i])})

(***************************************************************************)
(* C1: within a session no category's phase changes from Done to Running   *)
(* or from Error to Running, whatever record is applied next.              *)
(***************************************************************************)
C1_NoReopen ==
    [][ sessions' = sessions =>
          \A c \in DOMAIN cards :
             Phase(c) \in {"Done", "Error"} => cards'[c].statusText # "Running" ]_vars

(***************************************************************************)
(* C2: within a session activeCategoryIndex never decreases.               *)
(***************************************************************************)
C2_ActiveIndexMonotone ==
    [][ sessions' = sessions => activeCategoryIndex' >= activeCategoryIndex ]_vars

(***************************************************************************)
(* C3: sticky error: a category whose first record failed and whose later  *)
(* records, all successful, brought it to its total shows Error.           *)
(***************************************************************************)
C3_StickyError ==
    \A c \in DOMAIN categoryTotals :
       LET recs == RecordsOf(c)
       IN  ( /\ Len(recs) = categoryTotals[c]
             /\ Len(recs) >= 2
             /\ ~RecordSucceeds(recs[1])
             /\ \A i \in 2..Len(recs) : RecordSucceeds(recs[i]) )
           => Phase(c) = "Error"

(***************************************************************************)
(* The lines of a text and the records among them, read off the text       *)
(* symbol by symbol.                                                       *)
(***************************************************************************)
RECURSIVE Scan(_, _, _)
Scan(text, cur, acc) ==
    IF text = <<>> THEN [lines |-> acc, rest |-> cur]
    ELSE IF Head(text) = NL THEN Scan(Tail(text), <<>>, Append(acc, cur))
         ELSE Scan(Tail(text), Append(cur, Head(text)), acc)

IsBlank(line) == \A i \in 1..Len(line) : line[i] = SP
Inked(line) == SelectSeq(line, LAMBDA x : x # SP)
IsRecordLine(line) ==
    Len(Inked(line)) = 2 /\ Inked(line)[1].k = "lbrace" /\ Inked(line)[2].k = "rbrace"
IsMalformed(line) == ~IsBlank(line) /\ ~IsRecordLine(line)

RECURSIVE RecordsIn(_)
RecordsIn(lines) ==
    IF lines = <<>> THEN <<>>
    ELSE (IF IsRecordLine(Head(lines)) THEN << Inked(Head(lines))[1].v >> ELSE <<>>)
         \o RecordsIn(Tail(lines))

NumMalformed(lines) == Cardinality({i \in 1..Len(lines) : IsMalformed(lines[i])})

\* the lines of the session's stream that the reader has got to: the terminated
\* lines, and the unterminated last one once the stream has ended gracefully
LinesSoFar ==
    LET sc == Scan(received, <<>>, <<>>)
    IN  IF lastEnd = "graceful" THEN Append(sc.lines, sc.rest) ELSE sc.lines

(***************************************************************************)
(* C4: fast-forward.  When a record for the catalog category at position   *)
(* k > activeCategoryIndex is applied, every catalog category from the old *)
(* active position up to k-1 that has no record shows Done afterwards,     *)
(* category k has been activated, and activeCategoryIndex is k, or k+1     *)
(* when the same record completes category k and k is not the last one;    *)
(* with catalog [A(1), B(1), C(2)] a single successful record for C gives  *)
(* A Done, B Done, C Running with completed 1.                             *)
(***************************************************************************)
OneRecordStep == pc' = "reading" /\ sessions' = sessions /\ Len(applied') = Len(applied) + 1
LastApplied == applied'[Len(applied')]

C4_FastForward ==
    [][ OneRecordStep =>
          LET k == IndexOf(CategoryOf(LastApplied))
          IN  k > activeCategoryIndex =>
                /\ \A i \in activeCategoryIndex..(k - 1) :
                      RecordsOf(At(i)) = <<>> => cards'[At(i)].statusText = "Done"
                /\ Has(startTimes', At(k))
                /\ activeCategoryIndex' =
                      IF categoryCompleted'[At(k)] >= categoryTotals'[At(k)]
                         /\ k + 1 < Len(categoryOrder)
                      THEN k + 1 ELSE k
                /\ ( categoryOrder = <<"A", "B", "C">> /\ applied = <<>>
                     /\ k = 2 /\ RecordSucceeds(LastApplied) )
                   => /\ cards'["A"].statusText = "Done"
                      /\ cards'["B"].statusText = "Done"
                      /\ cards'["C"].statusText = "Running"
                      /\ categoryCompleted'["C"] = 1 ]_vars

\* C4 as first stated: activeCategoryIndex is k afterwards, and any single
\* record for C leaves C Running
C4_FastForward_Original ==
    [][ OneRecordStep =>
          LET k == IndexOf(CategoryOf(LastApplied))
          IN  k > activeCategoryIndex =>
                /\ \A i \in activeCategoryIndex..(k - 1) :
                      RecordsOf(At(i)) = <<>> => cards'[At(i)].statusText = "Done"
                /\ Has(startTimes', At(k))
                /\ activeCategoryIndex' = k
                /\ ( categoryOrder = <<"A", "B", "C">> /\ applied = <<>> /\ k = 2 )
                   => /\ cards'["A"].statusText = "Done"
                      /\ cards'["B"].statusText = "Done"
                      /\ cards'["C"].statusText = "Running"
                      /\ categoryCompleted'["C"] = 1 ]_vars

C4_Witness ==
    /\ categoryOrder = <<"A", "B", "C">>
    /\ pc = "reading"
    /\ applied = << [category |-> "C", returncode |-> 0] >>
    /\ Phase("A") = "Done" /\ Phase("B") = "Done" /\ Phase("C") = "Running"
    /\ ~Has(startTimes, "B") /\ Has(endTimes, "B")
    /\ categoryCompleted["C"] = 1
    /\ activeCategoryIndex = 2

(***************************************************************************)
(* C5: finalize on early termination.  When the stream has ended and the   *)
(* active category has completed < total, that category shows Done and has *)
(* its finishedAt; with failureCount = 0 the overall status is the         *)
(* successful one.                                                         *)
(***************************************************************************)
StreamEnded == pc = "idle" /\ lastEnd \in {"graceful", "readError"}

C5_FinalizeEarlyTermination ==
    StreamEnded =>
       LET c == At(activeCategoryIndex)
       IN  categoryCompleted[c] < categoryTotals[c] =>
             /\ Phase(c) = "Done"
             /\ Has(endTimes, c)
             /\ failureCount = 0 =>
                   (status.text = "All categories finished" /\ status.tone = "success")

(***************************************************************************)
(* C6: end-to-end scenario.  Catalog [snapshots(2), caches(1)], records    *)
(* snapshots/0, snapshots/0, caches/1 and a graceful end give snapshots    *)
(* Done 2/2, caches Error 1/1, failureCount 1, overall status Error.       *)
(***************************************************************************)
C6_Scenario ==
    /\ categoryOrder = <<"snapshots", "caches">>
    /\ expectedCategories = [snapshots |-> 2, caches |-> 1]
    /\ applied = << [category |-> "snapshots", returncode |-> 0],
                    [category |-> "snapshots", returncode |-> 0],
                    [category |-> "caches", returncode |-> 1] >>
    /\ pc = "idle" /\ lastEnd = "graceful"

C6_Final ==
    /\ Phase("snapshots") = "Done"
    /\ categoryCompleted["snapshots"] = 2 /\ categoryTotals["snapshots"] = 2
    /\ cards["snapshots"].counts = <<2, 2>>
    /\ Phase("caches") = "Error"
    /\ categoryCompleted["caches"] = 1 /\ categoryTotals["caches"] = 1
    /\ cards["caches"].counts = <<1, 1>>
    /\ failureCount = 1
    /\ status = [text |-> "Completed with N error(s)", tone |-> "error", errors |-> 1]

C6_EndToEnd == C6_Scenario => C6_Final

C6_Witness == C6_Scenario /\ C6_Final /\ warnings = 0

(***************************************************************************)
(* C7: completed against total.  The progress shown for a category stays   *)
(* within 0..100 percent and is 100 exactly when completed >= total;       *)
(* completed itself is not capped: it is above total exactly when more     *)
(* than total records were applied for the category.                       *)
(***************************************************************************)
C7_ClampedProgress ==
    \A c \in DOMAIN cards :
       /\ cards[c].width >= 0 /\ cards[c].width <= 100
       /\ categoryCompleted[c] > 0 =>
             (cards[c].width = 100 <=> categoryCompleted[c] >= categoryTotals[c])
       /\ categoryCompleted[c] > categoryTotals[c] <=> Len(RecordsOf(c)) > categoryTotals[c]

\* C7 as first stated: completed <= total in every reachable state
C7_CompletedAtMostTotal ==
    \A c \in DOMAIN categoryCompleted : categoryCompleted[c] <= categoryTotals[c]

C7_Witness ==
    \E c \in DOMAIN cards :
       /\ categoryCompleted[c] = categoryTotals[c] + 1
       /\ cards[c].width = 100
       /\ \E d \in DOMAIN cards : cards[d].width > 0 /\ cards[d].width < 100

(***************************************************************************)
(* C8: completed counts the records.  For every category completed is >= 0 *)
(* and is the number of records applied for it in the session; every       *)
(* applied record's category has a count, also the second record of a      *)
(* category outside the catalog.                                           *)
(***************************************************************************)
C8_CompletedCountsRecords ==
    /\ \A c \in DOMAIN categoryCompleted :
          categoryCompleted[c] >= 0 /\ categoryCompleted[c] = Len(RecordsOf(c))
    /\ \A i \in 1..Len(applied) : Has(categoryCompleted, CategoryOf(applied[i]))

C8_Witness ==
    /\ Has(categoryCompleted, "misc") /\ "misc" \notin CatalogIds
    /\ categoryTotals["misc"] = 1
    /\ categoryCompleted["misc"] = 2
    /\ Len(RecordsOf("misc")) = 2

(***************************************************************************)
(* C9: failureCount is the number of applied records that are failures (a  *)
(* record succeeds iff status = "ok" or returncode = 0), and a failing     *)
(* record stops nothing: every record line the reader has got to has been  *)
(* applied, whatever failed before it.                                     *)
(***************************************************************************)
C9_FailureCount ==
    /\ failureCount = NumFailures(applied)
    /\ sessions > 0 => Len(applied) = Len(RecordsIn(LinesSoFar))

C9_Witness ==
    /\ Len(applied) = 3
    /\ applied[1] = <<>>
    /\ applied[2] = [category |-> "misc", status |-> "ok", returncode |-> 1]
    /\ applied[3] = [category |-> "misc", status |-> "error"]
    /\ failureCount = 2

(***************************************************************************)
(* C10: malformed line tolerance.  A line that is not JSON changes no      *)
(* category state and not failureCount; the lines after it are processed:  *)
(* the applied records are the record lines of the stream, in order, and   *)
(* one diagnostic is logged per malformed line.                            *)
(***************************************************************************)
TrackerState ==
    << cards, startTimes, endTimes, categoryTotals, categoryCompleted,
       failureCount, activeCategoryIndex >>

C10_MalformedLine ==
    /\ [][ (pc' = "reading" /\ warnings' = warnings + 1 /\ applied' = applied)
             => TrackerState' = TrackerState ]_vars
    /\ [](sessions > 0 =>
             /\ applied = RecordsIn(LinesSoFar)
             /\ warnings = NumMalformed(LinesSoFar))

C10_Witness ==
    /\ pc = "reading"
    /\ \E p \in Payloads : received = << JUNK, NL, LB(p), RB, NL >> /\ applied = << p >>
    /\ warnings = 1
    /\ failureCount = NumFailures(applied)

(***************************************************************************)
(* C11: chunk-boundary invariance.  However the text of the stream was cut *)
(* into chunks, the texts handed to JSON.parse and the state of the        *)
(* tracker are those of the same text delivered as one chunk: while the    *)
(* stream is read, and after its end.  The times of the clock are not part *)
(* of the comparison (the chunks of one text arrive at different times):   *)
(* the categories that have a startedAt and a finishedAt are.              *)
(***************************************************************************)
\* the tracker as startStreaming and handleStream leave it before the first read
FreshTracker ==
    LET t0 == [Tracker EXCEPT !.applied = <<>>, !.warnings = 0, !.finalizeCalls = 0,
                              !.parsed = <<>>]
        t1 == activateCategory([resetStream(t0) EXCEPT !.activeCategoryIndex = 0], At(0), now)
    IN  setStatus(t1, "Streaming data...", "default", 0)

\* the tracker after one read that delivers the whole text, and what that read
\* leaves in the buffer
AfterOneChunk(text) ==
    LET pieces == Split(text)
    IN  [ t |-> ProcessLines(FreshTracker, SubSeq(pieces, 1, Len(pieces) - 1), now),
          buffer |-> pieces[Len(pieces)] ]

\* the tracker after that read and the end of the stream
AfterOneChunkAndEnd(text) ==
    LET r == AfterOneChunk(text)
        t1 == ProcessTrailing(r.t, r.buffer, now)
    IN  finalizeStatus(finalizeStatus(t1, now), now)

Untimed(t) == [t EXCEPT !.startTimes = DOMAIN @, !.endTimes = DOMAIN @]

C11_ChunkInvariance ==
    /\ pc = "reading" =>
          /\ Untimed(Tracker) = Untimed(AfterOneChunk(received).t)
          /\ buffer = AfterOneChunk(received).buffer
    /\ (pc = "idle" /\ lastEnd = "graceful") =>
          Untimed(Tracker) = Untimed(AfterOneChunkAndEnd(received))

\* two lines in three chunks of two symbols: the first chunk ends inside the
\* object of the first line, the second holds the end of that line
C11_Witness ==
    LET p == [category |-> "C", returncode |-> 0]
    IN  /\ pc = "idle" /\ lastEnd = "graceful"
        /\ sessions = 1 /\ linesFed = 3
        /\ received = << SP, LB(p), RB, NL, LB(p), RB >>
        /\ parsed = << << LB(p), RB >>, << LB(p), RB >> >>
        /\ applied = << p, p >>
        /\ Phase("C") = "Done"

(***************************************************************************)
(* C12: the timestamps of a category are written once in a session.        *)
(* activateCategory for a category that has its startedAt changes nothing  *)
(* (not the startedAt, not the phase); no step of a session changes a      *)
(* startedAt or a finishedAt that is set, whether it applies a record,     *)
(* fast-forwards or finalizes; and finishCategory leaves a finishedAt that *)
(* is set as it is.                                                        *)
(***************************************************************************)
C12_WriteOnce ==
    /\ [][ sessions' = sessions =>
             /\ \A c \in DOMAIN startTimes :
                   Has(startTimes', c) /\ startTimes'[c] = startTimes[c]
             /\ \A c \in DOMAIN endTimes :
                   Has(endTimes', c) /\ endTimes'[c] = endTimes[c] ]_vars
    /\ [](\A c \in DOMAIN startTimes : activateCategory(Tracker, c, now) = Tracker)
    /\ [](\A c \in DOMAIN endTimes :
             \A isError \in BOOLEAN :
                finishCategory(Tracker, c, isError, now).endTimes = endTimes)

\* A(1) got two records in two reads: the second ran finishCategory("A") and
\* activateCategory("B") again, after the clock had moved on
C12_Witness ==
    /\ categoryOrder = << "A", "B", "C" >>
    /\ pc = "reading"
    /\ applied = << [category |-> "A", returncode |-> 0], [category |-> "A", returncode |-> 0] >>
    /\ warnings = 0
    /\ endTimes["A"] = startTimes["B"]
    /\ endTimes["A"] + 2 = now

(***************************************************************************)
(* C13: a start while a session is connecting or streaming is a no-op: the *)
(* category states, the completed counts, failureCount,                    *)
(* activeCategoryIndex and the stream in flight (the reader, its buffer,   *)
(* the abort controller, the position of handleStream) are left as they    *)
(* were.                                                                   *)
(***************************************************************************)
C13_StartWhileStreaming ==
    [][ ignored' # ignored =>
          /\ isStreaming /\ isStreaming'
          /\ TrackerState' = TrackerState
          /\ UNCHANGED << status, abortController, activeReader, durationTimer, pc,
                          buffer, applied, received, parsed, sessions >> ]_vars

\* one click while connecting and one between the two reads, which the clock
\* shows; the second record was applied to what the first had left
C13_Witness ==
    /\ categoryOrder = << "A", "B", "C" >>
    /\ sessions = 1 /\ ignored = 2 /\ pc = "reading" /\ isStreaming
    /\ applied = << [category |-> "A", returncode |-> 0], [category |-> "C", returncode |-> 1] >>
    /\ startTimes["A"] = 1
    /\ endTimes["A"] = 4
    /\ endTimes["B"] = 6
    /\ failureCount = 1

(***************************************************************************)
(* C14: a new session resets the tracker wholesale.  From its start until  *)
(* its first record is applied every catalog category has completed = 0    *)
(* and total = its expected count, no category outside the catalog has     *)
(* any state, failureCount = 0, activeCategoryIndex = 0 and no category    *)
(* has a finishedAt; the only startedAt is that of the first catalog       *)
(* category, which the start itself activates (it shows Running, the       *)
(* others show Not started) and which is the time of this start, not one   *)
(* of the session before.                                                  *)
(***************************************************************************)
BeforeFirstRecord == sessions >= 1 /\ isStreaming /\ applied = <<>>

SeededCounts ==
    /\ categoryCompleted = [c \in CatalogIds |-> 0]
    /\ categoryTotals = expectedCategories
    /\ DOMAIN cards = CatalogIds
    /\ \A c \in CatalogIds :
          /\ cards[c].counts = << 0, expectedCategories[c] >>
          /\ cards[c].width = 0
    /\ failureCount = 0
    /\ activeCategoryIndex = 0
    /\ endTimes = EmptyMap

C14_SessionReset ==
    /\ [][ sessions' # sessions => startTimes' = Put(EmptyMap, At(0), now) ]_vars
    /\ [](BeforeFirstRecord =>
             /\ SeededCounts
             /\ DOMAIN startTimes = { At(0) }
             /\ \A c \in CatalogIds :
                   Phase(c) = IF c = At(0) THEN "Running" ELSE "Not started")

\* C14 as first stated: all startedAt are cleared before the first record
C14_AllTimestampsCleared ==
    BeforeFirstRecord => (SeededCounts /\ startTimes = EmptyMap)

\* the second session has read a line that is no record, the first session had
\* read one chunk
C14_Witness ==
    /\ sessions = 2 /\ pc = "reading" /\ applied = <<>>
    /\ received = << JUNK, NL >> /\ warnings = 1
    /\ linesFed = 2
    /\ SeededCounts
    /\ startTimes = Put(EmptyMap, At(0), now - 3)

(***************************************************************************)
(* C15: after a transport failure (fetch fails, or a read fails in the     *)
(* middle of the stream) the session ends in the failed status, and the    *)
(* handling of the failure changes no category's phase, finishedAt or      *)
(* counts and not failureCount: what was recorded before it is kept.       *)
(***************************************************************************)
C15_TransportFailure ==
    [][ (lastEnd = "none" /\ lastEnd' \in {"connectFailed", "readError"}) =>
          /\ status'.text = "Failed to connect" /\ status'.tone = "error"
          /\ ~isStreaming'
          /\ TrackerState' = TrackerState ]_vars

(***************************************************************************)
(* C16 speaks of a cancellation signalled while records are buffered.  The *)
(* script signals one in resetStream only (abortController.abort(), line   *)
(* 682), which startStreaming calls after its test of isStreaming: when it *)
(* runs no stream is in flight and nothing is buffered.                    *)
(***************************************************************************)
AbortFindsNoStream == ~isStreaming => (pc = "idle" /\ buffer = <<>>)

(***************************************************************************)
(* C17: the overall phase, as the status line and the header show it, is   *)
(* Running while the session is streaming; once finalizeStatus has run it  *)
(* is Error if and only if failureCount > 0 and Done otherwise, and the    *)
(* number of errors the status reports is failureCount.                    *)
(***************************************************************************)
OverallPhase ==
    IF status.tone = "error" THEN "Error"
    ELSE IF status.tone = "success" THEN "Done"
    ELSE IF status.text \in {"Connecting...", "Streaming data..."} THEN "Running"
    ELSE "Idle"

Finalized == ~isStreaming /\ finalizeCalls > 0

C17_OverallPhase ==
    /\ isStreaming => OverallPhase = "Running"
    /\ Finalized =>
          /\ OverallPhase = (IF failureCount > 0 THEN "Error" ELSE "Done")
          /\ status.errors = failureCount
          /\ failureCount > 0 <=> status.text = "Completed with N error(s)"

C17_Witness ==
    /\ Finalized /\ lastEnd = "graceful"
    /\ Len(applied) = 3
    /\ failureCount = 2
    /\ status = [text |-> "Completed with N error(s)", tone |-> "error", errors |-> 2]

(***************************************************************************)
(* C18: a category that has had a failing record in the session does not   *)
(* show Done at any later point, whether a later record for it, a          *)
(* fast-forward over it or finalizeStatus ran after the failure.           *)
(***************************************************************************)
C18_NeverDoneAfterFailure ==
    \A c \in DOMAIN cards :
       NumFailures(RecordsOf(c)) > 0 => Phase(c) # "Done"

(***************************************************************************)
(* C19: when the stream has ended and finalizeStatus has run, no category, *)
(* of the catalog or outside it, shows Running, whatever records came      *)
(* before the end.                                                         *)
(***************************************************************************)
C19_NoneRunningAfterFinalize ==
    (StreamEnded /\ finalizeCalls > 0) =>
       \A c \in DOMAIN cards : Phase(c) # "Running"

(***************************************************************************)
(* C20: a line that is JSON but no object (a number, a string, a boolean,  *)
(* an array, null) is a parse failure: reading it applies no record,       *)
(* creates and changes no category state, and does not increment           *)
(* failureCount.                                                           *)
(***************************************************************************)
C20_NonObjectLine ==
    [][ (pc' = "reading" /\ \E x \in Literals : received' = received \o << LIT(x), NL >>) =>
          /\ applied' = applied
          /\ TrackerState' = TrackerState ]_vars

(***************************************************************************)
(* C21: line delivery.  The texts handed to JSON.parse are the lines of    *)
(* the stream that are not blank, each once and in the order of arrival; a *)
(* blank line is never handed over; the text after the last newline is     *)
(* held back while the stream is read and is processed as a line when the  *)
(* stream ends gracefully; and the applied records are the parseable lines *)
(* of the stream, in order.                                                *)
(***************************************************************************)
NonBlankLines(lines) ==
    LET kept == SelectSeq(lines, LAMBDA l : ~IsBlank(l))
    IN  [i \in 1..Len(kept) |-> Trim(kept[i])]

C22_UnknownCategoryFrame ==
    [][ (OneRecordStep /\ CategoryOf(LastApplied) \notin CatalogIds) =>
          LET category == CategoryOf(LastApplied)
          IN  /\ categoryTotals'[category] = 1
              /\ Has(startTimes', category)
              /\ activeCategoryIndex' = activeCategoryIndex
              /\ \A c \in CatalogIds :
                    /\ cards'[c] = cards[c]
                    /\ Has(startTimes', c) = Has(startTimes, c)
                    /\ Has(endTimes', c) = Has(endTimes, c) ]_vars

(***************************************************************************)
(* C23: completion advance.  When a record brings the completed count of   *)
(* the active catalog category to its total, the category has a finishedAt *)
(* and shows Done or Error; if a next catalog category exists,             *)
(* activeCategoryIndex moves to it and it shows Running; if the category   *)
(* is the last one, activeCategoryIndex stays on it.                       *)
(***************************************************************************)
C23_CompletionAdvance ==
    [][ ( /\ OneRecordStep
          /\ IndexOf(CategoryOf(LastApplied)) = activeCategoryIndex
          /\ categoryCompleted'[CategoryOf(LastApplied)] = categoryTotals[CategoryOf(LastApplied)] ) =>
          LET k == activeCategoryIndex
          IN  /\ Has(endTimes', At(k))
              /\ cards'[At(k)].statusText \in {"Done", "Error"}
              /\ IF k + 1 < Len(categoryOrder)
                 THEN /\ activeCategoryIndex' = k + 1
                      /\ cards'[At(k + 1)].statusText = "Running"
                 ELSE activeCategoryIndex' = k ]_vars

(***************************************************************************)
(* C24: at most one session consumes a stream against the tracker at any   *)
(* time.  A session begins, and the tracker is reset (the records applied  *)
(* and the text received start again from nothing), only in a step taken   *)
(* while no session is streaming and no read loop is in flight; and every  *)
(* step that applies records is a step of the read loop of the running     *)
(* session, which adds them after the records this session has applied     *)
(* already.  Clicks on the start button come at any point.                 *)
(***************************************************************************)
IsPrefix(s, t) == Len(s) <= Len(t) /\ SubSeq(t, 1, Len(s)) = s

C24_OneSessionAtATime ==
    [][ /\ ( \/ sessions' # sessions
             \/ ~IsPrefix(applied, applied')
             \/ ~IsPrefix(received, received') ) =>
               /\ ~isStreaming /\ pc = "idle"
               /\ sessions' = sessions + 1
               /\ applied' = <<>> /\ received' = <<>>
        /\ applied' # applied /\ applied' # <<>> =>
               /\ isStreaming /\ pc = "reading"
               /\ sessions' = sessions
               /\ IsPrefix(applied, applied') ]_vars

\* the second session reads its first record after a first session that read one
\* and ended; one click was made while a session ran
C24_Witness ==
    /\ categoryOrder = << "A", "B", "C" >>
    /\ sessions = 2 /\ ignored = 1 /\ linesFed = 2
    /\ pc = "reading" /\ isStreaming
    /\ applied = << [category |-> "C", returncode |-> 1] >>
    /\ categoryCompleted = [A |-> 0, B |-> 0, C |-> 1]
    /\ failureCount = 1

(***************************************************************************)
(* C25: finalizeStatus is executed exactly once in a session whose stream  *)
(* has ended, gracefully or with a read error, and not at all in a session *)
(* that never received a stream.                                           *)
(***************************************************************************)
C25_FinalizeOnce ==
    /\ StreamEnded => finalizeCalls = 1
    /\ (pc = "idle" /\ lastEnd = "connectFailed") => finalizeCalls = 0
    /\ pc \in {"connecting", "reading"} => finalizeCalls = 0

\* what does hold: twice after a graceful end, once after a read error
C25_FinalizeCount ==
    /\ (pc = "idle" /\ lastEnd = "graceful") => finalizeCalls = 2
    /\ (pc = "idle" /\ lastEnd = "readError") => finalizeCalls = 1
    /\ (pc = "idle" /\ lastEnd = "connectFailed") => finalizeCalls = 0
    /\ pc \in {"connecting", "reading"} => finalizeCalls = 0

(***************************************************************************)
(* C26: whenever finalizeStatus has run and the overall phase is Done      *)
(* ("All categories finished"), every catalog category shows Done or       *)
(* Error: none shows Not started or Running, also when the stream ended    *)
(* before any record of the later categories had arrived.                  *)
(***************************************************************************)
C26_DoneMeansAllTerminal ==
    (Finalized /\ OverallPhase = "Done") =>
       \A c \in CatalogIds : Phase(c) \in {"Done", "Error"}

(***************************************************************************)
(* C27: for every category that has both timestamps startedAt <=           *)
(* finishedAt; and a category that a fast-forward has finished without its *)
(* having been activated (it has a finishedAt and no startedAt) is not     *)
(* activated afterwards in the session.                                    *)
(***************************************************************************)
C27_StartBeforeFinish ==
    [][ /\ \A c \in DOMAIN startTimes' \cap DOMAIN endTimes' :
              startTimes'[c] <= endTimes'[c]
        /\ sessions' = sessions =>
              \A c \in DOMAIN endTimes :
                 ~Has(startTimes, c) => ~Has(startTimes', c) ]_vars

(***************************************************************************)
(* C28: in every reachable state at most one category has a startedAt and  *)
(* no finishedAt, and if there is one it is the catalog category at        *)
(* activeCategoryIndex.                                                    *)
(***************************************************************************)
Open == { c \in DOMAIN startTimes : ~Has(endTimes, c) }

C28_OneOpenCategory ==
    /\ Cardinality(Open) <= 1
    /\ \A c \in Open : c \in CatalogIds /\ c = At(activeCategoryIndex)

(***************************************************************************)
(* C29: the fast-forward of a record of catalog category k changes, of the *)
(* categories it skips (the old active position up to k-1), only the phase *)
(* and the finishedAt: their completed counts, totals, progress and        *)
(* startedAt are as before, failureCount is as before, and so is the whole *)
(* state of every category that is neither skipped nor the record's own.   *)
(* In the state after the record the completed counts of the skipped       *)
(* categories are still as before and failureCount has grown by the        *)
(* record's own failure only.                                              *)
(***************************************************************************)
Measures(card) == << card.width, card.scanned, card.counts >>

C29_FastForwardFrame ==
    [][ (OneRecordStep /\ IndexOf(CategoryOf(LastApplied)) > activeCategoryIndex) =>
          LET category == CategoryOf(LastApplied)
              k == IndexOf(category)
              skipped == { At(i) : i \in activeCategoryIndex..(k - 1) }
              ff == fastForward(Tracker, k, category, now)
          IN  /\ ff.failureCount = failureCount
              /\ ff.categoryCompleted = categoryCompleted
              /\ ff.categoryTotals = categoryTotals
              /\ \A c \in skipped :
                    /\ Measures(ff.cards[c]) = Measures(cards[c])
                    /\ Has(ff.startTimes, c) = Has(startTimes, c)
                    /\ Has(startTimes, c) => ff.startTimes[c] = startTimes[c]
                    /\ Has(endTimes, c) => ff.endTimes[c] = endTimes[c]
              /\ \A c \in DOMAIN cards \ (skipped \cup {category}) :
                    /\ ff.cards[c] = cards[c]
                    /\ Get(ff.startTimes, c, 0) = Get(startTimes, c, 0)
                    /\ Get(ff.endTimes, c, 0) = Get(endTimes, c, 0)
              /\ DOMAIN ff.cards = DOMAIN cards
              /\ \A c \in skipped : categoryCompleted'[c] = categoryCompleted[c]
              /\ failureCount' = failureCount + (IF RecordSucceeds(LastApplied) THEN 0 ELSE 1) ]_vars

\* developer_data had one of its four records when a failing record of homebrew
\* arrived: it is finished with its count of one
C29_Witness ==
    /\ categoryOrder = << "developer_data", "homebrew" >>
    /\ pc = "reading"
    /\ applied = << [category |-> "developer_data", returncode |-> 0],
                    [category |-> "homebrew", returncode |-> 1] >>
    /\ Phase("developer_data") = "Done"
    /\ Has(endTimes, "developer_data")
    /\ categoryCompleted = [developer_data |-> 1, homebrew |-> 1]
    /\ cards["developer_data"].counts = << 1, 4 >>
    /\ failureCount = 1
    /\ activeCategoryIndex = 1

====
